---- MODULE Spec2Model ----
(***************************************************************************)
(* Model of the translation rating app (app.py, quality.py).               *)
(*                                                                         *)
(* The app is a Streamlit script: every user action re-executes the whole  *)
(* script against st.session_state.  One action of the model is one user   *)
(* action together with the complete script run (and the st.rerun() pass)  *)
(* it triggers.  Floats are modelled as exact rationals [num, den];        *)
(* strings as sequences of one-character strings.                          *)
(***************************************************************************)
EXTENDS Integers, Sequences, FiniteSets, TLC

VARIABLES
    session_state,  \* st.session_state: dict with example_index, all_ratings, username
    scratch,        \* slider positions of the displayed form not yet sent (browser side)
    now,            \* int(time.time())
    sink,           \* the Firestore collection: doc_id -> data_to_save
    calls,          \* history: doc_id of every doc_ref.set() call, in order
    outcome,        \* what the last script run reported to the user
    lastAction,     \* history: the last user action
    committed,      \* history: indices whose form was submitted at least once
    visited,        \* history: indices whose form was displayed at least once
    edits           \* history: number of slider moves so far

vars == <<session_state, scratch, now, sink, calls, outcome, lastAction,
          committed, visited, edits>>

(***************************************************************************)
(* Bounds                                                                  *)
(***************************************************************************)
NumExamples == 2     \* examples in data.json
MaxEdits == 1        \* slider moves per session
MaxTime == 1         \* seconds the clock advances
MaxSubmits == 1      \* documents written before the final submit is left alone (Spec, SpecFn)
MaxResubmits == 2    \* the same under SpecSink

n_examples == NumExamples
Indices == 0 .. (n_examples - 1)

\* Names typed into the text box: empty, blank, plain, padded, with an inner
\* space, and one that is already in normalised form.
Usernames == { << >>, <<" ">>, <<"A">>, <<" ", "A", " ">>,
               <<"A", " ", "a">>, <<"a", "_", "a">> }

\* Positions a slider is moved to (both ends of the range 1..10).
SliderStops == {1, 10}

(***************************************************************************)
(* Python dict and string primitives                                       *)
(***************************************************************************)
EmptyDict == << >>

Put(d, k, v) == [x \in (DOMAIN d) \cup {k} |-> IF x = k THEN v ELSE d[x]]

setdefault(d, k, v) == IF k \in DOMAIN d THEN d ELSE Put(d, k, v)

Get(d, k, default) == IF k \in DOMAIN d THEN d[k] ELSE default

RECURSIVE lstrip(_)
lstrip(s) == IF s # << >> /\ Head(s) = " " THEN lstrip(Tail(s)) ELSE s

RECURSIVE rstrip(_)
rstrip(s) ==
    IF s # << >> /\ s[Len(s)] = " " THEN rstrip(SubSeq(s, 1, Len(s) - 1)) ELSE s

strip(s) == rstrip(lstrip(s))

replace(s, old, new) == [i \in 1..Len(s) |-> IF s[i] = old THEN new ELSE s[i]]

lower(s) == [i \in 1..Len(s) |-> IF s[i] = "A" THEN "a" ELSE s[i]]

DigitChars == <<"0", "1", "2", "3", "4", "5", "6", "7", "8", "9">>

RECURSIVE str(_)
str(k) == IF k < 10 THEN <<DigitChars[k + 1]>>
          ELSE str(k \div 10) \o <<DigitChars[(k % 10) + 1]>>

(***************************************************************************)
(* Float arithmetic, as exact rationals in lowest terms                    *)
(***************************************************************************)
RECURSIVE GCD(_, _)
GCD(a, b) == IF b = 0 THEN a ELSE GCD(b, a % b)

Rat(n, d) == LET g == GCD(n, d) IN [num |-> n \div g, den |-> d \div g]

Zero == [num |-> 0, den |-> 1]

FromInt(k) == [num |-> k, den |-> 1]

FAdd(a, b) == Rat(a.num * b.den + b.num * a.den, a.den * b.den)

FMul(a, b) == Rat(a.num * b.num, a.den * b.den)

\* x / 0 raises ZeroDivisionError: no float comes back.
ZeroDivisionError == [num |-> 0, den |-> 0]

FDiv(a, k) == IF k = 0 THEN ZeroDivisionError ELSE Rat(a.num, a.den * k)

(***************************************************************************)
(* quality.py                                                              *)
(***************************************************************************)
qualities == <<
    [name |-> "Adequacy (Meaning Preservation)", range |-> <<1, 10>>, weight |-> Rat(30, 100)],
    [name |-> "Fluency",                         range |-> <<1, 10>>, weight |-> Rat(30, 100)],
    [name |-> "Grammatical Correctness",         range |-> <<1, 10>>, weight |-> Rat(20, 100)],
    [name |-> "Style Consistency",               range |-> <<1, 10>>, weight |-> Rat(10, 100)],
    [name |-> "Conciseness",                     range |-> <<1, 10>>, weight |-> Rat(10, 100)] >>

QualityNames == {qualities[i].name : i \in 1..Len(qualities)}

(***************************************************************************)
(* calculate_average_scores                                                *)
(***************************************************************************)
\* Variant of example_totals: a dimension missing from the rating set is
\* scored at the default rating instead of being left out.
RECURSIVE example_totals_defaulting(_, _, _, _)
example_totals_defaulting(quals, rating_dict, i, acc) ==
    IF i > Len(quals) THEN acc
    ELSE LET q == quals[i]
             r == Get(rating_dict, q.name, [y1 |-> 5, y2 |-> 5])
         IN  example_totals_defaulting(quals, rating_dict, i + 1,
                [y1 |-> FAdd(acc.y1, FMul(q.weight, FromInt(Get(r, "y1", 0)))),
                 y2 |-> FAdd(acc.y2, FMul(q.weight, FromInt(Get(r, "y2", 0)))),
                 has_valid_rating |-> TRUE])

\* Variant of example_totals: has_valid_rating is never set.
RECURSIVE example_totals_unflagged(_, _, _, _)
example_totals_unflagged(quals, rating_dict, i, acc) ==
    IF i > Len(quals) THEN acc
    ELSE LET q == quals[i] IN
         IF q.name \in DOMAIN rating_dict
         THEN example_totals_unflagged(quals, rating_dict, i + 1,
                [y1 |-> FAdd(acc.y1, FMul(q.weight, FromInt(Get(rating_dict[q.name], "y1", 0)))),
                 y2 |-> FAdd(acc.y2, FMul(q.weight, FromInt(Get(rating_dict[q.name], "y2", 0)))),
                 has_valid_rating |-> acc.has_valid_rating])
         ELSE example_totals_unflagged(quals, rating_dict, i + 1, acc)

\* The loop over the catalog for one example (the `for q in qualities` body).
RECURSIVE example_totals(_, _, _, _)
example_totals(quals, rating_dict, i, acc) ==
    IF i > Len(quals) THEN acc
    ELSE LET q == quals[i] IN
         IF q.name \in DOMAIN rating_dict
         THEN example_totals(quals, rating_dict, i + 1,
                [y1 |-> FAdd(acc.y1, FMul(q.weight, FromInt(Get(rating_dict[q.name], "y1", 0)))),
                 y2 |-> FAdd(acc.y2, FMul(q.weight, FromInt(Get(rating_dict[q.name], "y2", 0)))),
                 has_valid_rating |-> TRUE])
         ELSE example_totals(quals, rating_dict, i + 1, acc)

NoTotals == [y1 |-> Zero, y2 |-> Zero, has_valid_rating |-> FALSE]

\* Variant of rated_sums: an empty rating set is not skipped, it is counted
\* as a rated example with score 0.
RECURSIVE rated_sums_counting_all(_, _, _, _)
rated_sums_counting_all(quals, ratings_data, todo, acc) ==
    IF todo = {} THEN acc
    ELSE LET example_idx == CHOOSE k \in todo : \A m \in todo : k <= m
             t == example_totals(quals, ratings_data[example_idx], 1, NoTotals)
         IN  rated_sums_counting_all(quals, ratings_data, todo \ {example_idx},
                [sum_y1 |-> FAdd(acc.sum_y1, t.y1),
                 sum_y2 |-> FAdd(acc.sum_y2, t.y2),
                 num_examples_rated |-> acc.num_examples_rated + 1])

\* The loop over ratings_data.items(); todo is the set of keys still to visit.
RECURSIVE rated_sums(_, _, _, _)
rated_sums(quals, ratings_data, todo, acc) ==
    IF todo = {} THEN acc
    ELSE LET example_idx == CHOOSE k \in todo : \A m \in todo : k <= m
             rating_dict == ratings_data[example_idx]
             rest        == todo \ {example_idx}
         IN  IF rating_dict = EmptyDict
             THEN rated_sums(quals, ratings_data, rest, acc)
             ELSE LET t == example_totals(quals, rating_dict, 1, NoTotals) IN
                  IF t.has_valid_rating
                  THEN rated_sums(quals, ratings_data, rest,
                         [sum_y1 |-> FAdd(acc.sum_y1, t.y1),
                          sum_y2 |-> FAdd(acc.sum_y2, t.y2),
                          num_examples_rated |-> acc.num_examples_rated + 1])
                  ELSE rated_sums(quals, ratings_data, rest, acc)

\* Variant of average_scores_for: the division is not guarded.
average_scores_unguarded(quals, ratings_data) ==
    LET s == rated_sums(quals, ratings_data, DOMAIN ratings_data,
                        [sum_y1 |-> Zero, sum_y2 |-> Zero, num_examples_rated |-> 0])
    IN  [avg_score_y1 |-> FDiv(s.sum_y1, s.num_examples_rated),
         avg_score_y2 |-> FDiv(s.sum_y2, s.num_examples_rated),
         num_examples_rated |-> s.num_examples_rated]

average_scores_for(quals, ratings_data) ==
    LET s == rated_sums(quals, ratings_data, DOMAIN ratings_data,
                        [sum_y1 |-> Zero, sum_y2 |-> Zero, num_examples_rated |-> 0])
    IN  IF s.num_examples_rated > 0
        THEN [avg_score_y1 |-> FDiv(s.sum_y1, s.num_examples_rated),
              avg_score_y2 |-> FDiv(s.sum_y2, s.num_examples_rated),
              num_examples_rated |-> s.num_examples_rated]
        ELSE [avg_score_y1 |-> Zero, avg_score_y2 |-> Zero,
              num_examples_rated |-> s.num_examples_rated]

calculate_average_scores(ratings_data) == average_scores_for(qualities, ratings_data)

\* Variant of current_total: the values are added up without their weights.
RECURSIVE current_total_unweighted(_, _, _, _, _)
current_total_unweighted(quals, ratings_for_this_example, cand, i, acc) ==
    IF i > Len(quals) THEN acc
    ELSE LET q == quals[i] IN
         IF q.name \in DOMAIN ratings_for_this_example
         THEN current_total_unweighted(quals, ratings_for_this_example, cand, i + 1,
                FAdd(acc, FromInt(Get(ratings_for_this_example[q.name], cand, 0))))
         ELSE current_total_unweighted(quals, ratings_for_this_example, cand, i + 1, acc)

\* The sum(...) generator of the form's submit branch, for one candidate;
\* acc is the running total of the builtin sum.
RECURSIVE current_total(_, _, _, _, _)
current_total(quals, ratings_for_this_example, cand, i, acc) ==
    IF i > Len(quals) THEN acc
    ELSE LET q == quals[i] IN
         IF q.name \in DOMAIN ratings_for_this_example
         THEN current_total(quals, ratings_for_this_example, cand, i + 1,
                FAdd(acc, FMul(q.weight,
                               FromInt(Get(ratings_for_this_example[q.name], cand, 0)))))
         ELSE current_total(quals, ratings_for_this_example, cand, i + 1, acc)

(***************************************************************************)
(* save_to_firestore                                                       *)
(***************************************************************************)
\* Variant of valid_ratings_of: the `if r` filter is missing.
valid_ratings_unfiltered(ratings_data) ==
    LET keep == DOMAIN ratings_data
        keys == {str(idx) : idx \in keep}
    IN  IF keep = {} THEN EmptyDict
        ELSE [k \in keys |-> ratings_data[CHOOSE idx \in keep : str(idx) = k]]

\* Variant of valid_ratings_of: the keys are the 1-based example numbers shown
\* on the page instead of the indices.
valid_ratings_one_based(ratings_data) ==
    LET keep == {idx \in DOMAIN ratings_data : ratings_data[idx] # EmptyDict}
        keys == {str(idx + 1) : idx \in keep}
    IN  IF keep = {} THEN EmptyDict
        ELSE [k \in keys |-> ratings_data[CHOOSE idx \in keep : str(idx + 1) = k]]

valid_ratings_of(ratings_data) ==
    LET keep == {idx \in DOMAIN ratings_data : ratings_data[idx] # EmptyDict}
        keys == {str(idx) : idx \in keep}
    IN  IF keep = {} THEN EmptyDict
        ELSE [k \in keys |-> ratings_data[CHOOSE idx \in keep : str(idx) = k]]

username_underscored_of(name) == lower(replace(strip(name), " ", "_"))

doc_id_of(name, t) == username_underscored_of(name) \o <<"_">> \o str(t)

data_to_save_of(name, valid_ratings) ==
    [username |-> strip(name), ratings |-> valid_ratings]

SinkResults == {"ok", "KeyError", "Exception"}

\* Variant of save_to_firestore: an exception of the store call is swallowed
\* and the call returns True.
save_to_firestore_swallowing(name, ratings_data, t, sinkResult, collection) ==
    LET valid_ratings == valid_ratings_of(ratings_data)
        doc_id        == doc_id_of(name, t)
        failed(msg)   == [ok |-> FALSE, message |-> msg, collection |-> collection,
                          wrote |-> FALSE, doc_id |-> EmptyDict]
    IN  IF name = << >> THEN failed("username_required")
        ELSE IF valid_ratings = EmptyDict THEN failed("nothing_to_save")
        ELSE IF sinkResult = "KeyError" THEN failed("secrets_error")
        ELSE IF sinkResult = "Exception"
             THEN [ok |-> TRUE, message |-> "none", collection |-> collection,
                   wrote |-> FALSE, doc_id |-> EmptyDict]
        ELSE [ok |-> TRUE, message |-> "none",
              collection |-> Put(collection, doc_id, data_to_save_of(name, valid_ratings)),
              wrote |-> TRUE, doc_id |-> doc_id]

\* Result of one call: the returned flag, the message shown, the collection
\* afterwards and the document id written (EmptyDict when nothing was written).
save_to_firestore(name, ratings_data, t, sinkResult, collection) ==
    LET valid_ratings == valid_ratings_of(ratings_data)
        doc_id        == doc_id_of(name, t)
        failed(msg)   == [ok |-> FALSE, message |-> msg, collection |-> collection,
                          wrote |-> FALSE, doc_id |-> EmptyDict]
    IN  IF name = << >> THEN failed("username_required")
        ELSE IF valid_ratings = EmptyDict THEN failed("nothing_to_save")
        ELSE IF sinkResult = "KeyError" THEN failed("secrets_error")
        ELSE IF sinkResult = "Exception" THEN failed("save_failed")
        ELSE [ok |-> TRUE, message |-> "none",
              collection |-> Put(collection, doc_id, data_to_save_of(name, valid_ratings)),
              wrote |-> TRUE, doc_id |-> doc_id]

(***************************************************************************)
(* The script body, top to bottom                                          *)
(***************************************************************************)
\* Variant of initialize_session_state: the three keys are assigned without
\* the `not in st.session_state` tests.
initialize_session_state_resetting(ss) ==
    [example_index |-> 0, all_ratings |-> EmptyDict, username |-> << >>]

initialize_session_state(ss) ==
    [example_index |-> IF "example_index" \in DOMAIN ss THEN ss.example_index ELSE 0,
     all_ratings   |-> IF "all_ratings" \in DOMAIN ss THEN ss.all_ratings ELSE EmptyDict,
     username      |-> IF "username" \in DOMAIN ss THEN ss.username ELSE << >>]

\* st.text_input returns the text in the box, which is stored back.
username_input(ss, text) == [ss EXCEPT !.username = text]

\* data[idx] raises IndexError outside -n .. n-1; the handler resets to 0.
left_column(ss) ==
    IF ss.example_index \in (0 - n_examples) .. (n_examples - 1)
    THEN ss
    ELSE [ss EXCEPT !.example_index = 0]

\* The st.error of the IndexError handler is shown in this pass.
index_error(ss) ==
    initialize_session_state(ss).example_index \notin (0 - n_examples) .. (n_examples - 1)

script_top(ss, text) == left_column(username_input(initialize_session_state(ss), text))

previous_button(ss, clicked) ==
    LET disabled == ss.example_index <= 0 IN
    IF clicked /\ ~disabled /\ ss.example_index > 0
    THEN [ss EXCEPT !.example_index = @ - 1]
    ELSE ss

\* Variant of next_button: both bounds are off by one.
next_button_off_by_one(ss, clicked) ==
    LET disabled == ss.example_index >= n_examples IN
    IF clicked /\ ~disabled /\ ss.example_index < n_examples
    THEN [ss EXCEPT !.example_index = @ + 1]
    ELSE ss

next_button(ss, clicked) ==
    LET disabled == ss.example_index >= n_examples - 1 IN
    IF clicked /\ ~disabled /\ ss.example_index < n_examples - 1
    THEN [ss EXCEPT !.example_index = @ + 1]
    ELSE ss

\* Variant of DefaultRating: the default lies below the sliders' range.
DefaultRating_zero == [y1 |-> 0, y2 |-> 0]

DefaultRating == [y1 |-> 5, y2 |-> 5]

\* Variant of slider: a moved slider reports its position to every script run,
\* as a slider outside a form does.
slider_outside_form(submitted, pending, q_name, cand, value) ==
    IF q_name \in DOMAIN pending THEN pending[q_name][cand] ELSE value

\* st.slider inside the form: the submitted position when the form was
\* submitted in this run, otherwise the value it is rendered with.
slider(submitted, pending, q_name, cand, value) ==
    IF submitted /\ q_name \in DOMAIN pending THEN pending[q_name][cand] ELSE value

RECURSIVE slider_loop(_, _, _, _)
slider_loop(ratings_for_this_example, i, submitted, pending) ==
    IF i > Len(qualities) THEN ratings_for_this_example
    ELSE LET q_name            == qualities[i].name
             r1                == setdefault(ratings_for_this_example, q_name, DefaultRating)
             current_q_ratings == r1[q_name]
             rating_y1 == slider(submitted, pending, q_name, "y1", current_q_ratings["y1"])
             rating_y2 == slider(submitted, pending, q_name, "y2", current_q_ratings["y2"])
         IN  slider_loop(Put(r1, q_name, [y1 |-> rating_y1, y2 |-> rating_y2]),
                         i + 1, submitted, pending)

\* Variant of rating_form: a submitted form also moves on to the next example.
rating_form_advancing(ss, submitted, pending) ==
    LET current_idx == ss.example_index
        t1 == setdefault(ss.all_ratings, current_idx, EmptyDict)
        ratings_for_this_example == slider_loop(t1[current_idx], 1, submitted, pending)
    IN  [ss EXCEPT !.all_ratings = Put(t1, current_idx, ratings_for_this_example),
                   !.example_index = IF submitted /\ current_idx < n_examples - 1
                                     THEN current_idx + 1 ELSE current_idx]

\* The form: all_ratings.setdefault(current_idx, {}) and the slider loop write
\* into the dict held by all_ratings; the assignment in the submit branch
\* stores that same dict again.
rating_form(ss, submitted, pending) ==
    LET current_idx == ss.example_index
        t1 == setdefault(ss.all_ratings, current_idx, EmptyDict)
        ratings_for_this_example == slider_loop(t1[current_idx], 1, submitted, pending)
    IN  [ss EXCEPT !.all_ratings = Put(t1, current_idx, ratings_for_this_example)]

\* What a pass shows: the message of the handler that ran (kind, with the
\* numbers it quotes) and whether the invalid-index error is on the page.
NoOutcome == [kind |-> "none", y1 |-> Zero, y2 |-> Zero, n |-> 0, invalid_index |-> FALSE]

Message(kind) == [NoOutcome EXCEPT !.kind = kind]

Shown(msg, invalid) == [msg EXCEPT !.invalid_index = invalid]

\* st.success of the form's submit branch.
form_submitted(ss, current_idx) ==
    LET r == ss.all_ratings[current_idx]
    IN  [NoOutcome EXCEPT !.kind = "example_submitted",
                          !.y1 = current_total(qualities, r, "y1", 1, Zero),
                          !.y2 = current_total(qualities, r, "y2", 1, Zero),
                          !.n  = current_idx + 1]

\* Variant of submit_all: the name is tested without strip().
submit_all_unstripped(ss, t, sinkResult, collection) ==
    IF ss.username = << >>
    THEN [outcome |-> Message("enter_name"), collection |-> collection,
          wrote |-> FALSE, doc_id |-> EmptyDict]
    ELSE LET avg  == calculate_average_scores(ss.all_ratings)
             save == save_to_firestore(ss.username, ss.all_ratings, t, sinkResult, collection)
         IN  [outcome |->
                IF save.ok
                THEN IF avg.num_examples_rated > 0
                     THEN [NoOutcome EXCEPT !.kind = "saved",
                                            !.y1 = avg.avg_score_y1,
                                            !.y2 = avg.avg_score_y2,
                                            !.n  = avg.num_examples_rated]
                     ELSE Message("saved_none_rated")
                ELSE Message(save.message),
              collection |-> save.collection, wrote |-> save.wrote, doc_id |-> save.doc_id]

\* The "Submit All Ratings" button handler.
submit_all(ss, t, sinkResult, collection) ==
    IF strip(ss.username) = << >>
    THEN [outcome |-> Message("enter_name"), collection |-> collection,
          wrote |-> FALSE, doc_id |-> EmptyDict]
    ELSE LET avg  == calculate_average_scores(ss.all_ratings)
             save == save_to_firestore(ss.username, ss.all_ratings, t, sinkResult, collection)
         IN  [outcome |->
                IF save.ok
                THEN IF avg.num_examples_rated > 0
                     THEN [NoOutcome EXCEPT !.kind = "saved",
                                            !.y1 = avg.avg_score_y1,
                                            !.y2 = avg.avg_score_y2,
                                            !.n  = avg.num_examples_rated]
                     ELSE Message("saved_none_rated")
                ELSE Message(save.message),
              collection |-> save.collection, wrote |-> save.wrote, doc_id |-> save.doc_id]

(***************************************************************************)
(* State functions                                                         *)
(***************************************************************************)
loaded == session_state # EmptyDict
example_index == session_state.example_index
all_ratings == session_state.all_ratings
username == session_state.username

(***************************************************************************)
(* Actions: one user action and the script run it triggers                 *)
(***************************************************************************)
Init ==
    /\ session_state = EmptyDict
    /\ scratch = EmptyDict
    /\ now = 0
    /\ sink = EmptyDict
    /\ calls = << >>
    /\ outcome = NoOutcome
    /\ lastAction = "none"
    /\ committed = {}
    /\ visited = {}
    /\ edits = 0

\* First page load: the script runs with no widget event.
Load ==
    /\ ~loaded
    /\ session_state' = rating_form(script_top(session_state, << >>), FALSE, EmptyDict)
    /\ scratch' = session_state'.all_ratings[session_state'.example_index]
    /\ visited' = visited \cup {session_state'.example_index}
    /\ outcome' = Shown(NoOutcome, index_error(session_state))
    /\ lastAction' = "load"
    /\ UNCHANGED <<now, sink, calls, committed, edits>>

\* The user types a new name: the script runs with the new text.
SetUsername(text) ==
    /\ loaded
    /\ text # username
    /\ session_state' = rating_form(script_top(session_state, text), FALSE, scratch)
    /\ outcome' = Shown(NoOutcome, index_error(session_state))
    /\ lastAction' = "username"
    /\ UNCHANGED <<scratch, now, sink, calls, committed, visited, edits>>

\* A navigation click: the handler runs; when it changed the index st.rerun()
\* abandons the pass and the script runs again from the top.  ss1 is the
\* session before the button, ss2 after it.
after_navigation(ss1, ss2) ==
    IF ss2 # ss1 THEN script_top(ss2, ss2.username) ELSE ss2

GoPrevious ==
    /\ loaded
    /\ LET ss1 == script_top(session_state, username)
           ss2 == previous_button(ss1, TRUE)
           ss3 == after_navigation(ss1, ss2)
       IN  /\ session_state' = rating_form(ss3, FALSE, scratch)
           /\ scratch' = IF ss3.example_index # example_index
                         THEN session_state'.all_ratings[ss3.example_index]
                         ELSE scratch
           /\ visited' = visited \cup {ss3.example_index}
           /\ outcome' = Shown(NoOutcome,
                               index_error(IF ss2 # ss1 THEN ss2 ELSE session_state))
    /\ lastAction' = "previous"
    /\ UNCHANGED <<now, sink, calls, committed, edits>>

GoNext ==
    /\ loaded
    /\ LET ss1 == script_top(session_state, username)
           ss2 == next_button(ss1, TRUE)
           ss3 == after_navigation(ss1, ss2)
       IN  /\ session_state' = rating_form(ss3, FALSE, scratch)
           /\ scratch' = IF ss3.example_index # example_index
                         THEN session_state'.all_ratings[ss3.example_index]
                         ELSE scratch
           /\ visited' = visited \cup {ss3.example_index}
           /\ outcome' = Shown(NoOutcome,
                               index_error(IF ss2 # ss1 THEN ss2 ELSE session_state))
    /\ lastAction' = "next"
    /\ UNCHANGED <<now, sink, calls, committed, edits>>

\* The user moves one slider of the displayed form; nothing is sent.
StageEdit(q_name, cand, v) ==
    /\ loaded
    /\ edits < MaxEdits
    /\ scratch[q_name][cand] # v
    /\ scratch' = [scratch EXCEPT ![q_name][cand] = v]
    /\ edits' = edits + 1
    /\ lastAction' = "edit"
    /\ UNCHANGED <<session_state, now, sink, calls, outcome, committed, visited>>

\* "Submit Ratings for This Example": the slider positions are sent.
CommitExample ==
    /\ loaded
    /\ session_state' = rating_form(script_top(session_state, username), TRUE, scratch)
    /\ outcome' = Shown(form_submitted(session_state',
                                       script_top(session_state, username).example_index),
                        index_error(session_state))
    /\ committed' = committed \cup {example_index}
    /\ lastAction' = "commit"
    /\ UNCHANGED <<scratch, now, sink, calls, visited, edits>>

\* Variant of SubmitAll: a successful save clears the ratings from the session
\* (the two statements left commented out at the end of the handler).
SubmitAll_clearing(sinkResult) ==
    /\ loaded
    /\ LET ss1 == rating_form(script_top(session_state, username), FALSE, scratch)
           res == submit_all(ss1, now, sinkResult, sink)
       IN  /\ session_state' = IF res.wrote THEN [ss1 EXCEPT !.all_ratings = EmptyDict]
                                ELSE ss1
           /\ sink' = res.collection
           /\ calls' = IF res.wrote THEN Append(calls, res.doc_id) ELSE calls
           /\ outcome' = Shown(res.outcome, index_error(session_state))
    /\ lastAction' = "submit_all"
    /\ UNCHANGED <<scratch, now, committed, visited, edits>>

\* "Submit All Ratings and Save to Database".
SubmitAll(sinkResult) ==
    /\ loaded
    /\ LET ss1 == rating_form(script_top(session_state, username), FALSE, scratch)
           res == submit_all(ss1, now, sinkResult, sink)
       IN  /\ session_state' = ss1
           /\ sink' = res.collection
           /\ calls' = IF res.wrote THEN Append(calls, res.doc_id) ELSE calls
           /\ outcome' = Shown(res.outcome, index_error(session_state))
    /\ lastAction' = "submit_all"
    /\ UNCHANGED <<scratch, now, committed, visited, edits>>

\* The clock advances by a second.
Tick ==
    /\ now < MaxTime
    /\ now' = now + 1
    /\ UNCHANGED <<session_state, scratch, sink, calls, outcome, lastAction,
                   committed, visited, edits>>

Next ==
    \/ Load
    \/ \E text \in Usernames : SetUsername(text)
    \/ GoPrevious
    \/ GoNext
    \/ \E q_name \in QualityNames, cand \in {"y1", "y2"}, v \in SliderStops :
           StageEdit(q_name, cand, v)
    \/ CommitExample
    \/ \E sinkResult \in SinkResults : Len(calls) < MaxSubmits /\ SubmitAll(sinkResult)
    \/ Tick

Spec == Init /\ [][Next]_vars

\* Sessions that save repeatedly: the same script without slider moves.
NextSink ==
    \/ Load
    \/ \E text \in Usernames : SetUsername(text)
    \/ GoNext
    \/ CommitExample
    \/ \E sinkResult \in SinkResults : Len(calls) < MaxResubmits /\ SubmitAll(sinkResult)
    \/ Tick

SpecSink == Init /\ [][NextSink]_vars

(***************************************************************************)
(* The pure functions applied to arbitrary tables                          *)
(***************************************************************************)
Restrict(f, D) == IF D = {} THEN EmptyDict ELSE [x \in D |-> f[x]]

\* A fully rated example with distinct values on every slider.
ProbeRatings ==
    LET pos(name) == CHOOSE i \in 1..Len(qualities) : qualities[i].name = name
    IN  [name \in QualityNames |-> [y1 |-> 11 - 2 * pos(name), y2 |-> 2 * pos(name)]]

\* Rating sets handed to the functions: empty, all defaults, and the probe
\* restricted to one, to all but one and to all dimensions.
FnRatingSets ==
    {EmptyDict, slider_loop(EmptyDict, 1, FALSE, EmptyDict)}
    \cup {Restrict(ProbeRatings, D) :
            D \in {S \in SUBSET QualityNames :
                     Cardinality(S) \in {1, Len(qualities) - 1, Len(qualities)}}}

FnTables == {EmptyDict} \cup UNION {[D -> FnRatingSets] : D \in SUBSET Indices \ {{}}}

FnUsernames == { << >>, <<" ">>, <<" ", "A", " ">> }

InitFn ==
    /\ \E t \in FnTables, u \in FnUsernames :
           session_state = [example_index |-> 0, all_ratings |-> t, username |-> u]
    /\ scratch = EmptyDict
    /\ now = 0
    /\ sink = EmptyDict
    /\ calls = << >>
    /\ outcome = NoOutcome
    /\ lastAction = "none"
    /\ committed = {}
    /\ visited = {}
    /\ edits = 0

\* calculate_average_scores(all_ratings)
FnAverage ==
    /\ LET avg == calculate_average_scores(all_ratings)
       IN  outcome' = [NoOutcome EXCEPT !.kind = "average",
                                        !.y1 = avg.avg_score_y1,
                                        !.y2 = avg.avg_score_y2,
                                        !.n  = avg.num_examples_rated]
    /\ lastAction' = "average"
    /\ UNCHANGED <<session_state, scratch, now, sink, calls, committed, visited, edits>>

\* The weighted scores of the form's submit branch for the entry of index i.
FnScore(i) ==
    /\ i \in DOMAIN all_ratings
    /\ outcome' = form_submitted(session_state, i)
    /\ lastAction' = "score"
    /\ UNCHANGED <<session_state, scratch, now, sink, calls, committed, visited, edits>>

\* The "Submit All Ratings" handler on the table as it is.
FnSubmitAll(sinkResult) ==
    /\ LET res == submit_all(session_state, now, sinkResult, sink)
       IN  /\ sink' = res.collection
           /\ calls' = IF res.wrote THEN Append(calls, res.doc_id) ELSE calls
           /\ outcome' = res.outcome
    /\ lastAction' = "submit_all"
    /\ UNCHANGED <<session_state, scratch, now, committed, visited, edits>>

NextFn ==
    \/ FnAverage
    \/ \E i \in Indices : FnScore(i)
    \/ \E sinkResult \in SinkResults : Len(calls) < MaxSubmits /\ FnSubmitAll(sinkResult)

SpecFn == InitFn /\ [][NextFn]_vars

(***************************************************************************)
(* The weighted score of a submitted form, for several catalogs            *)
(***************************************************************************)
\* The catalog the form falls back to when quality.py cannot be imported.
FallbackQualities ==
    LET names == <<"Quality 1", "Quality 2", "Quality 3", "Quality 4", "Quality 5">>
    IN  [i \in 1..5 |-> [name |-> names[i], range |-> <<1, 10>>, weight |-> Rat(1, 5)]]

\* Catalogs whose weights sum to 1.0: the shipped one, the fallback, two
\* dimensions at 0.6 / 0.4, one dimension of weight 1.0 on a 1..5 scale, and
\* three dimensions on a 0..7 scale.
FnCatalogs ==
    { qualities,
      FallbackQualities,
      << [name |-> "two A", range |-> <<1, 10>>, weight |-> Rat(6, 10)],
         [name |-> "two B", range |-> <<1, 10>>, weight |-> Rat(4, 10)] >>,
      << [name |-> "one A", range |-> <<1, 5>>, weight |-> Rat(1, 1)] >>,
      << [name |-> "three A", range |-> <<0, 7>>, weight |-> Rat(5, 100)],
         [name |-> "three B", range |-> <<0, 7>>, weight |-> Rat(15, 100)],
         [name |-> "three C", range |-> <<0, 7>>, weight |-> Rat(80, 100)] >> }

NamesOf(quals) == {quals[i].name : i \in 1..Len(quals)}

QualityOf(quals, name) == quals[CHOOSE i \in 1..Len(quals) : quals[i].name = name]

\* The forms of catalog quals with every slider at one end of its range
\* (min_value or max_value).
FormsOf(quals) ==
    [NamesOf(quals) -> [y1 : {1, 2}, y2 : {1, 2}]]

EndsOf(quals, ends) ==
    [name \in NamesOf(quals) |->
        [y1 |-> QualityOf(quals, name).range[ends[name].y1],
         y2 |-> QualityOf(quals, name).range[ends[name].y2]]]

CatalogForms == UNION { {EndsOf(quals, ends) : ends \in FormsOf(quals)} : quals \in FnCatalogs }

InitCat ==
    /\ session_state = EmptyDict
    /\ scratch \in CatalogForms
    /\ now = 0
    /\ sink = EmptyDict
    /\ calls = << >>
    /\ outcome = NoOutcome
    /\ lastAction = "none"
    /\ committed = {}
    /\ visited = {}
    /\ edits = 0

\* The form of catalog quals is submitted as it stands: the weighted scores
\* of the submit branch.
FnScoreForm(quals) ==
    /\ lastAction = "none"
    /\ DOMAIN scratch = NamesOf(quals)
    /\ outcome' = [NoOutcome EXCEPT !.kind = "example_submitted",
                                    !.y1 = current_total(quals, scratch, "y1", 1, Zero),
                                    !.y2 = current_total(quals, scratch, "y2", 1, Zero),
                                    !.n  = 1]
    /\ lastAction' = "score_form"
    /\ UNCHANGED <<session_state, scratch, now, sink, calls, committed, visited, edits>>

NextCat == \E quals \in FnCatalogs : FnScoreForm(quals)

SpecCat == InitCat /\ [][NextCat]_vars

(***************************************************************************)
(* Properties                                                              *)
(***************************************************************************)
\* The table, empty before the first script run has created it.
Table == IF loaded THEN all_ratings ELSE EmptyDict

Entry(t, i) == IF i \in DOMAIN t THEN <<TRUE, t[i]>> ELSE <<FALSE>>

Without(t, i) == Restrict(t, (DOMAIN t) \ {i})

Blank(u) == \A k \in 1..Len(u) : u[k] = " "

\* s is u without its leading and trailing spaces.
IsTrimOf(s, u) ==
    /\ s = << >> \/ (s[1] # " " /\ s[Len(s)] # " ")
    /\ \E a \in 0..Len(u) :
          /\ a + Len(s) <= Len(u)
          /\ \A k \in 1..Len(u) :
                IF k > a /\ k <= a + Len(s) THEN u[k] = s[k - a] ELSE u[k] = " "

\* A step taken by the user action `name`: every user action records its name
\* and leaves the clock alone, and the clock's step leaves the name alone.
StepOf(name) == lastAction' = name /\ now' = now /\ vars' # vars

\* C1: table[i] changes only in a step that is commitExample(i); loading,
\* navigating, renaming and the final submit leave every entry as it was.
C1_TableChangesOnlyOnCommit ==
    [][\A i \in Indices :
          Entry(Table', i) # Entry(Table, i) => (StepOf("commit") /\ example_index = i)]_vars

\* C2: an example that was displayed but never committed is not counted by
\* calculate_average_scores, adds nothing to its sums, and is in no stored record.
C2_UncommittedExcluded ==
    loaded =>
      \A i \in visited \ committed :
         /\ calculate_average_scores(all_ratings)
              = calculate_average_scores(Without(all_ratings, i))
         /\ \A d \in DOMAIN sink : str(i) \notin DOMAIN sink[d].ratings

\* C3: the index stays within 0 .. n-1; Previous and Next move it by exactly
\* one inside the range, leave it alone at the ends, and never bring up the
\* invalid-index error.
C3_IndexInRange ==
    [][/\ loaded' => example_index' \in 0 .. (n_examples - 1)
       /\ StepOf("previous") =>
            /\ example_index' = IF example_index = 0 THEN 0 ELSE example_index - 1
            /\ ~outcome'.invalid_index
       /\ StepOf("next") =>
            /\ example_index' = IF example_index = n_examples - 1 THEN example_index
                                ELSE example_index + 1
            /\ ~outcome'.invalid_index]_vars

C3_Witness ==
    /\ lastAction = "next"
    /\ example_index = n_examples - 1
    /\ committed # {}
    /\ calls # << >>

\* C4: no two documents written in one run use the same document id, so no
\* write replaces an earlier record.
C4_KeysUnique ==
    /\ \A i, j \in 1..Len(calls) : i # j => calls[i] # calls[j]
    /\ Cardinality(DOMAIN sink) = Len(calls)

\* C5: a final submit with a blank name only asks for the name: nothing is
\* written and the session is as before; with a non-blank name the record
\* written carries the name without its surrounding spaces.
C5_MissingUsername ==
    [][StepOf("submit_all") =>
             IF Blank(username)
             THEN /\ outcome'.kind = "enter_name"
                  /\ sink' = sink
                  /\ calls' = calls
                  /\ session_state' = session_state
             ELSE /\ outcome'.kind # "enter_name"
                  /\ calls' # calls =>
                        IsTrimOf(sink'[calls'[Len(calls')]].username, username)]_vars

C5_Witness ==
    /\ lastAction = "submit_all"
    /\ outcome.kind = "enter_name"
    /\ username = <<" ">>
    /\ committed # {}
    /\ edits > 0

\* C10: submitting the form again with the sliders where they were leaves the
\* whole session (table, index, name) as the first submit left it.
C10_CommitIdempotent ==
    [][(lastAction = "commit" /\ StepOf("commit")) => session_state' = session_state]_vars

C10_Witness ==
    /\ lastAction = "commit"
    /\ edits > 0
    /\ all_ratings[example_index] = scratch
    /\ scratch # slider_loop(EmptyDict, 1, FALSE, EmptyDict)

\* The catalog dimensions a rating set has an entry for.
PresentDims(quals, rs) == {i \in 1..Len(quals) : quals[i].name \in DOMAIN rs}

\* Sum of weight x value over the dimensions I, in hundredths.
RECURSIVE Hundredths(_, _, _, _)
Hundredths(quals, I, rs, c) ==
    IF I = {} THEN 0
    ELSE LET i == CHOOSE x \in I : TRUE
         IN  ((quals[i].weight.num * 100) \div quals[i].weight.den) * rs[quals[i].name][c]
             + Hundredths(quals, I \ {i}, rs, c)

Weighted(quals, rs, c) == Rat(Hundredths(quals, PresentDims(quals, rs), rs, c), 100)

RatedIndices(t) == {i \in DOMAIN t : t[i] # EmptyDict}

RECURSIVE TableHundredths(_, _, _)
TableHundredths(t, I, c) ==
    IF I = {} THEN 0
    ELSE LET i == CHOOSE x \in I : TRUE
         IN  Hundredths(qualities, PresentDims(qualities, t[i]), t[i], c)
             + TableHundredths(t, I \ {i}, c)

ScenarioQualities ==
    << [name |-> "dimA", range |-> <<1, 10>>, weight |-> Rat(6, 10)],
       [name |-> "dimB", range |-> <<1, 10>>, weight |-> Rat(4, 10)] >>

ScenarioRatings ==
    [name \in {"dimA", "dimB"} |->
        IF name = "dimA" THEN [y1 |-> 10, y2 |-> 1] ELSE [y1 |-> 5, y2 |-> 5]]

\* C6: with a non-blank name and a table whose rating sets are all empty (or
\* with no entry at all) the final submit reports that there is nothing to
\* save; nothing is written and no success is shown.
C6_EmptySubmission ==
    (lastAction = "submit_all" /\ ~Blank(username) /\ RatedIndices(all_ratings) = {})
       => /\ outcome.kind = "nothing_to_save"
          /\ sink = EmptyDict
          /\ calls = << >>

C6_Witness ==
    /\ lastAction = "submit_all"
    /\ ~Blank(username)
    /\ DOMAIN all_ratings = Indices
    /\ RatedIndices(all_ratings) = {}
    /\ outcome.kind = "nothing_to_save"

\* C7: the weighted score of a rating set, for y1 and for y2, is the sum of
\* weight x value over the catalog dimensions the set has; a missing dimension
\* adds nothing and the sum is not divided by the weight present.  The
\* 0.6 / 0.4 scenario scores 8.0 and 2.6.
C7_WeightedScore ==
    /\ \A i \in DOMAIN all_ratings, c \in {"y1", "y2"} :
          example_totals(qualities, all_ratings[i], 1, NoTotals)[c]
             = Weighted(qualities, all_ratings[i], c)
    /\ lastAction = "score" =>
          /\ outcome.y1 = Weighted(qualities, all_ratings[outcome.n - 1], "y1")
          /\ outcome.y2 = Weighted(qualities, all_ratings[outcome.n - 1], "y2")
    /\ example_totals(ScenarioQualities, ScenarioRatings, 1, NoTotals).y1 = FromInt(8)
    /\ example_totals(ScenarioQualities, ScenarioRatings, 1, NoTotals).y2 = Rat(26, 10)
    /\ current_total(ScenarioQualities, ScenarioRatings, "y1", 1, Zero) = FromInt(8)
    /\ current_total(ScenarioQualities, ScenarioRatings, "y2", 1, Zero) = Rat(26, 10)

C7_Witness ==
    /\ lastAction = "score"
    /\ Cardinality(DOMAIN all_ratings[outcome.n - 1]) = Len(qualities) - 1
    /\ outcome.y1 # Zero

\* C8: calculate_average_scores counts the indices with a non-empty rating
\* set and returns, per candidate, the sum of their weighted scores divided by
\* that count; one fully rated example gives its own scores and a count of 1.
C8_CorpusAverage ==
    lastAction = "average" =>
       LET rated == RatedIndices(all_ratings) IN
       /\ outcome.n = Cardinality(rated)
       /\ rated # {} =>
            /\ outcome.y1 = Rat(TableHundredths(all_ratings, rated, "y1"), 100 * outcome.n)
            /\ outcome.y2 = Rat(TableHundredths(all_ratings, rated, "y2"), 100 * outcome.n)
       /\ (DOMAIN all_ratings = {0} /\ DOMAIN all_ratings[0] = QualityNames) =>
            /\ outcome.n = 1
            /\ outcome.y1 = Weighted(qualities, all_ratings[0], "y1")
            /\ outcome.y2 = Weighted(qualities, all_ratings[0], "y2")

C8_Witness ==
    /\ lastAction = "average"
    /\ DOMAIN all_ratings = Indices
    /\ Cardinality(RatedIndices(all_ratings)) = n_examples - 1
    /\ outcome.y1 # outcome.y2

\* C9: for the empty table and for a table with no rated example
\* calculate_average_scores returns (0.0, 0.0, 0); it does not divide by zero.
C9_NoRatedExamples ==
    (lastAction = "average" /\ RatedIndices(all_ratings) = {})
       => outcome = [NoOutcome EXCEPT !.kind = "average"]

C9_Witness ==
    /\ lastAction = "average"
    /\ DOMAIN all_ratings = Indices
    /\ RatedIndices(all_ratings) = {}
    /\ outcome.n = 0

\* What the final submit's handler can report.
SubmitOutcomes ==
    {"enter_name", "nothing_to_save", "secrets_error", "save_failed", "saved",
     "saved_none_rated"}

\* C11: a final submit, whatever its outcome (saved, rejected, failed in the
\* sink), leaves index, name and every table entry as they were, and the
\* page stays in use: a form submit, a navigation click or a further final
\* submit that follows it acts as it does at any other time.
C11_SubmitKeepsSession ==
    [][/\ StepOf("submit_all") => (session_state' = session_state /\ loaded')
       /\ (lastAction = "submit_all" /\ StepOf("commit")) =>
             /\ all_ratings'[example_index] = scratch
             /\ example_index' = example_index
             /\ outcome'.kind = "example_submitted"
       /\ (lastAction = "submit_all" /\ StepOf("next")) =>
             example_index' = IF example_index = n_examples - 1 THEN example_index
                              ELSE example_index + 1
       /\ (lastAction = "submit_all" /\ StepOf("submit_all")) =>
             /\ outcome'.kind \in SubmitOutcomes
             /\ outcome'.kind = "saved" => calls' # calls]_vars

\* A second record written after a first one, with a form submit in the session.
C11_Witness ==
    /\ lastAction = "submit_all"
    /\ outcome.kind = "saved"
    /\ Len(calls) = 2
    /\ Cardinality(DOMAIN sink) = 2
    /\ example_index = n_examples - 1
    /\ committed # {}

\* C12: every final submit reports exactly one outcome.  Success is reported
\* only in a run whose store call went through (the record is in the
\* collection); a run whose store call failed reports the failure, writes
\* nothing and reports no success.
C12_SuccessAfterStore ==
    [][StepOf("submit_all") =>
          /\ outcome'.kind \in SubmitOutcomes
          /\ outcome'.kind \in {"saved", "saved_none_rated"} =>
                /\ calls' # calls
                /\ Len(calls') = Len(calls) + 1
                /\ calls'[Len(calls')] \in DOMAIN sink'
                /\ sink'[calls'[Len(calls')]].ratings = valid_ratings_of(all_ratings)
          /\ outcome'.kind \notin {"saved", "saved_none_rated"} =>
                (sink' = sink /\ calls' = calls)
          /\ (~Blank(username) /\ RatedIndices(all_ratings) # {} /\ calls' = calls) =>
                outcome'.kind \in {"secrets_error", "save_failed"}]_vars

C12_Witness ==
    /\ lastAction = "submit_all"
    /\ outcome.kind = "save_failed"
    /\ sink = EmptyDict
    /\ ~Blank(username)
    /\ committed # {}

\* C13: the ratings of a written record are exactly the table entries with a
\* non-empty rating set, each under the decimal string of its index and with
\* the values it has in the table; an entry with an empty set and an index
\* the table does not have are not in the record.
C13_RecordIsRatedEntries ==
    (lastAction = "submit_all" /\ outcome.kind \in {"saved", "saved_none_rated"}) =>
       LET ratings == sink[calls[Len(calls)]].ratings IN
       /\ calls # << >>
       /\ \A i \in Indices :
             IF i \in DOMAIN all_ratings /\ all_ratings[i] # EmptyDict
             THEN str(i) \in DOMAIN ratings /\ ratings[str(i)] = all_ratings[i]
             ELSE str(i) \notin DOMAIN ratings
       /\ Cardinality(DOMAIN ratings) = Cardinality(RatedIndices(all_ratings))

\* A record written from a table with an empty entry next to a partly rated one.
C13_Witness ==
    /\ lastAction = "submit_all"
    /\ outcome.kind = "saved"
    /\ calls # << >>
    /\ DOMAIN all_ratings = Indices
    /\ all_ratings[0] = EmptyDict
    /\ Cardinality(DOMAIN all_ratings[n_examples - 1]) = 1
    /\ DOMAIN sink[calls[1]].ratings = {str(n_examples - 1)}

\* The catalog a form belongs to.
CatalogOf(form) == CHOOSE quals \in FnCatalogs : NamesOf(quals) = DOMAIN form

UntouchedForm == slider_loop(EmptyDict, 1, FALSE, EmptyDict)

\* C15: moving a slider changes neither the table nor anything shown or
\* stored.  Until the form is submitted no script run (navigation, renaming,
\* final submit) puts the moved value into the table: entries keep their
\* values, an entry holds something other than the untouched form only once
\* its example was committed, and a final submit averages and stores the
\* table without the pending values.  The form submit then stores them.
C15_StagedEditsStayOut ==
    [][/\ StepOf("edit") =>
             (session_state' = session_state /\ sink' = sink /\ outcome' = outcome)
       /\ ~StepOf("commit") =>
             \A i \in DOMAIN Table : i \in DOMAIN Table' /\ Table'[i] = Table[i]
       /\ \A i \in DOMAIN Table' : Table'[i] # UntouchedForm => i \in committed'
       /\ (StepOf("submit_all") /\ loaded /\ outcome'.kind = "saved") =>
             /\ sink'[calls'[Len(calls')]].ratings = valid_ratings_of(all_ratings)
             /\ outcome'.y1 = calculate_average_scores(all_ratings).avg_score_y1
             /\ outcome'.y2 = calculate_average_scores(all_ratings).avg_score_y2
       /\ (StepOf("commit") /\ loaded) => all_ratings'[example_index] = scratch]_vars

\* A record was written while a moved slider was still pending.
C15_Witness ==
    /\ lastAction = "submit_all"
    /\ outcome.kind = "saved"
    /\ edits > 0
    /\ scratch # all_ratings[example_index]
    /\ all_ratings[example_index] = UntouchedForm
    /\ visited = Indices

\* C16: the first script run finds no session and initialises it to index 0,
\* an empty table and an empty name.  In every later run the initialisation
\* changes nothing: the index changes only by navigation, the name only by
\* typing, and a table entry only by submitting its form; no entry is dropped.
C16_InitialisedOnce ==
    [][/\ (~loaded /\ loaded') =>
             /\ initialize_session_state(session_state)
                   = [example_index |-> 0, all_ratings |-> EmptyDict, username |-> << >>]
             /\ example_index' = 0
             /\ username' = << >>
       /\ loaded' => initialize_session_state(session_state') = session_state'
       /\ loaded =>
             /\ loaded'
             /\ example_index' # example_index => (StepOf("previous") \/ StepOf("next"))
             /\ username' # username => StepOf("username")
             /\ \A i \in DOMAIN all_ratings :
                   /\ i \in DOMAIN all_ratings'
                   /\ all_ratings'[i] # all_ratings[i] =>
                         (StepOf("commit") /\ example_index = i)]_vars

\* A script run that changes nothing, with index, name and table all set.
C16_Witness ==
    /\ lastAction = "submit_all"
    /\ outcome.kind = "save_failed"
    /\ example_index = n_examples - 1
    /\ username = <<" ", "A", " ">>
    /\ committed # {}
    /\ \E i \in DOMAIN all_ratings : all_ratings[i] # UntouchedForm

\* C17: in every state each rating set of the table is keyed by names of
\* catalog dimensions only, and each rating has a y1 and a y2 that lie within
\* the range the catalog declares for its dimension.
C17_RatingsInRange ==
    loaded =>
       \A i \in DOMAIN all_ratings :
          \A name \in DOMAIN all_ratings[i] :
             /\ name \in QualityNames
             /\ DOMAIN all_ratings[i][name] = {"y1", "y2"}
             /\ LET q == QualityOf(qualities, name) IN
                \A c \in {"y1", "y2"} :
                   all_ratings[i][name][c] \in q.range[1] .. q.range[2]

\* One entry holds a value at an end of the range, another the defaults.
C17_Witness ==
    /\ loaded
    /\ DOMAIN all_ratings = Indices
    /\ \E i \in Indices, name \in QualityNames, c \in {"y1", "y2"} :
          /\ all_ratings[i][name][c] \in {1, 10}
          /\ \E j \in Indices \ {i} : all_ratings[j] = UntouchedForm

\* Sum over the examples I of the weighted score the form's submit branch
\* reports for the entry of the table t.
RECURSIVE ReportedSum(_, _, _)
ReportedSum(t, I, c) ==
    IF I = {} THEN Zero
    ELSE LET i == CHOOSE x \in I : TRUE
         IN  FAdd(current_total(qualities, t[i], c, 1, Zero), ReportedSum(t, I \ {i}, c))

\* The scores of a form submit agree with what calculate_average_scores adds
\* for the submitted entry.
C18_CommitScoreIsContribution ==
    (loaded /\ lastAction = "commit") =>
       LET t == example_totals(qualities, all_ratings[example_index], 1, NoTotals)
       IN  outcome.y1 = t.y1 /\ outcome.y2 = t.y2

\* C18: the scores reported by a form submit are the contributions
\* calculate_average_scores adds for the submitted entry, so that the average
\* times the number of rated examples is the sum of the scores reported at
\* the latest submit of each example's form.
C18_ScoresAgree ==
    loaded =>
       LET avg == calculate_average_scores(all_ratings)
           k   == avg.num_examples_rated
       IN  /\ C18_CommitScoreIsContribution
           /\ FMul(avg.avg_score_y1, FromInt(k)) = ReportedSum(all_ratings, committed, "y1")
           /\ FMul(avg.avg_score_y2, FromInt(k)) = ReportedSum(all_ratings, committed, "y2")

\* C19: a final submit that reports success reports a number of rated
\* examples that is greater than 0 and is the number of examples in the
\* record it wrote; the message for a save with no rated example never shows.
C19_SavedCountMatchesRecord ==
    /\ outcome.kind # "saved_none_rated"
    /\ (lastAction = "submit_all" /\ outcome.kind = "saved") =>
          /\ outcome.n > 0
          /\ calls # << >>
          /\ outcome.n = Cardinality(DOMAIN sink[calls[Len(calls)]].ratings)
          /\ outcome.n = Cardinality(RatedIndices(all_ratings))

C19_Witness ==
    /\ lastAction = "submit_all"
    /\ outcome.kind = "saved"
    /\ outcome.n = n_examples
    /\ Cardinality(DOMAIN sink[calls[Len(calls)]].ratings) = n_examples
    /\ committed = {0}

====
